---- MODULE Spec2Model ----
(***************************************************************************)
(* Model of custom_ptr_metadata (src/src/lib.rs): PayloadPointer<T>, a     *)
(* (non-null address, metadata) pair parameterised by a pointee kind, the  *)
(* Pointee capability naming the metadata shape, and the GetRawPtr         *)
(* capability building a PayloadPointer from a reference plus explicit     *)
(* metadata.                                                               *)
(*                                                                         *)
(* Memory is a row of cells; addresses 1..MemCells hold live storage, the  *)
(* addresses above are not mapped, address 0 is null.  A metadata value    *)
(* is a tuple of usize components: <<n>> for usize, <<x, y>> for           *)
(* (usize, usize).                                                         *)
(***************************************************************************)
EXTENDS Integers, Sequences, FiniteSets, TLC

\* mem     the live storage, cell by cell
\* mem0    the storage as it was at the start (history)
\* pp      the caller's PayloadPointer variable, or Moved
\* origin  the inputs pp was constructed from (history)
\* op      the operation that ran last; "init" in a fresh scope
\* arg     the operands of that operation
\* ret     what it returned
VARIABLES mem, mem0, pp, origin, op, arg, ret

vars == <<mem, mem0, pp, origin, op, arg, ret>>

\* ------------------------------------------------------------- bounds
MaxAddr == 3
MemCells == 2
MaxMeta == 2
MaxByte == 1

Addrs == 0..MaxAddr
NonNullAddrs == 1..MaxAddr
Live == 1..MemCells
Byte == 0..MaxByte
Usize == 0..MaxMeta
\* size_of::<T>() of the element types the sequences are instantiated with
ElemSizes == {1, 2}

\* ------------------------------------------------------ pointee kinds
\* [T] with size_of::<T>() = esize
SliceKind(esize) == [tag |-> "slice", esize |-> esize]
StrKind == [tag |-> "str", esize |-> 1]
\* RawSlice2D<T>: a zero-size marker (its only field is PhantomData<T>)
Slice2DKind == [tag |-> "slice2d", esize |-> 0]
\* a caller's P: Pointee + Sized holding esize cells, Metadata = usize
PodKind(esize) == [tag |-> "pod", esize |-> esize]

Kinds == {SliceKind(s) : s \in ElemSizes} \cup {StrKind, Slice2DKind}
           \cup {PodKind(s) : s \in ElemSizes}

\* <T as Pointee>::Metadata
Metadata(kind) == IF kind.tag = "slice2d" THEN [1..2 -> Usize] ELSE [1..1 -> Usize]

\* T: Sized
IsSized(kind) == kind.tag \in {"slice2d", "pod"}
\* size_of::<T>() for T: Sized
SizeOf(kind) == kind.esize
\* derive(Clone, Copy) on PayloadPointer<T> carries the bound T: Copy;
\* [T] and str are unsized, hence not Copy
IsCopy(kind) == kind.tag \in {"slice2d", "pod"}
\* derive(PartialEq, PartialOrd, Eq) carries the bound T: PartialEq, ...;
\* RawSlice2D derives only Clone and Copy
IsComparable(kind) == kind.tag \in {"slice", "str", "pod"}

\* ------------------------------------------------------------ values
PayloadPointer(ptr, meta, kind) == [ptr |-> ptr, meta |-> meta, kind |-> kind]

PayloadPointers(kind) ==
  {PayloadPointer(a, m, kind) : a \in NonNullAddrs, m \in Metadata(kind)}

AllPayloadPointers == UNION {PayloadPointers(k) : k \in Kinds}

\* the pointer variable holds no value: not yet bound, or moved out of
Moved == [ptr |-> 0, meta |-> <<>>, kind |-> [tag |-> "none", esize |-> 0]]

\* a reference &[T] / &mut [T]: the address of the first element, the
\* element count the reference itself carries, size_of::<T>()
Fits(a, len, esize) == len * esize = 0 \/ a + len * esize - 1 <= MemCells

Refs == {r \in [addr : NonNullAddrs, len : Usize, esize : ElemSizes] :
           Fits(r.addr, r.len, r.esize)}

\* ------------------------------------------------ pointer conversions
\* NonNull<()>::cast::<U>() / *mut ()::cast::<U>(): the address is kept
cast(ptr) == ptr

\* NonNull::as_ptr(): the raw pointer of a NonNull, same address
nn_as_ptr(ptr) == ptr

\* NonNull::addr() is a NonZero<usize>, .into() its usize value
nonzero_into(a) == a

\* faulty variant: a reference to an empty sequence becomes a null pointer
ref_as_thin_ptr_null_when_empty(r) == IF r.len = 0 THEN 0 ELSE r.addr

\* `addr as *const AddrSource as *mut ()`: the reference becomes a raw fat
\* pointer, and the cast to the thin *mut () keeps the address and drops
\* the element count
ref_as_thin_ptr(r) == r.addr

\* NonNull::new_unchecked(p): p itself; a null p is undefined behaviour
new_unchecked(p) == p

\* ptr::slice_from_raw_parts(_mut)(data, len)
slice_from_raw_parts(data, len, esize) == [addr |-> data, len |-> len, esize |-> esize]

\* ------------------------------------------------ impl PayloadPointer<T>
metadata_of(self) == self.meta

addr(self) == nonzero_into(self.ptr)

\* faulty variant: the pointer is advanced by the first metadata component
as_ptr_offset_by_meta(self) ==
  [addr |-> cast(self.ptr) + self.meta[1], kind |-> self.kind]

as_ptr(self) == [addr |-> cast(self.ptr), kind |-> self.kind]

from_raw_parts(ptr, meta, kind) == PayloadPointer(ptr, meta, kind)

\* faulty variant: the metadata of a fixed-size kind is taken to be trivial
into_raw_parts_zero_meta(self) ==
  <<[addr |-> cast(self.ptr), kind |-> self.kind], [i \in DOMAIN self.meta |-> 0]>>

into_raw_parts(self) ==
  <<[addr |-> cast(self.ptr), kind |-> self.kind], self.meta>>

\* faulty variant: the value is moved out, its cells are zeroed
ptr_read_take(m, src, n) ==
  [val |-> [i \in 1..n |-> m[src + i - 1]],
   mem |-> [a \in DOMAIN m |-> IF a \in src..(src + n - 1) THEN 0 ELSE m[a]]]

\* core::ptr::read(src) of a value of n cells: the cells src .. src+n-1 in
\* order; memory is left as it is
ptr_read(m, src, n) ==
  [val |-> [i \in 1..n |-> m[src + i - 1]], mem |-> m]

deref(m, p) == ptr_read(m, cast(nn_as_ptr(p.ptr)), SizeOf(p.kind))

\* the safety precondition of deref: the address holds a value of the kind
Readable(a, n) == n = 0 \/ (a \in Live /\ a + n - 1 \in Live)

\* faulty variant: the length of the view is counted in cells, not elements
to_raw_slice_len_in_cells(self) ==
  new_unchecked(slice_from_raw_parts(cast(nn_as_ptr(self.ptr)),
                                     self.meta[1] * self.kind.esize,
                                     self.kind.esize))

\* --------------------------------------------- impl PayloadPointer<[T]>
to_raw_slice(self) ==
  new_unchecked(slice_from_raw_parts(cast(nn_as_ptr(self.ptr)), self.meta[1],
                                     self.kind.esize))

\* faulty variant: a length that runs past the live storage is cut to zero
to_raw_str_validated(self) ==
  [addr |-> cast(nn_as_ptr(self.ptr)),
   len |-> IF Fits(self.ptr, self.meta[1], 1) THEN self.meta[1] ELSE 0]

\* --------------------------------------------- impl PayloadPointer<str>
to_raw_str(self) ==
  [addr |-> cast(nn_as_ptr(self.ptr)), len |-> self.meta[1]]

\* faulty variant: the metadata is taken from the reference itself
get_raw_const_ptr_from_ref_own_len(r, meta, kind) ==
  from_raw_parts(new_unchecked(ref_as_thin_ptr(r)),
                 IF kind.tag = "slice2d" THEN <<r.len, 1>> ELSE <<r.len>>, kind)

\* faulty variant: the address is advanced by the first metadata component
get_raw_mut_ptr_from_ref_offset(r, meta, kind) ==
  from_raw_parts(new_unchecked(ref_as_thin_ptr(r) + meta[1]), meta, kind)

\* ------------------------------------------------------ trait GetRawPtr
get_raw_const_ptr_from_ref(r, meta, kind) ==
  from_raw_parts(new_unchecked(ref_as_thin_ptr(r)), meta, kind)

get_raw_mut_ptr_from_ref(r, meta, kind) ==
  from_raw_parts(new_unchecked(ref_as_thin_ptr(r)), meta, kind)

\* the pointee kinds Self with `impl GetRawPtr<[T]> for Self`, for a
\* source &[T] with size_of::<T>() = esize
GetRawPtrImpls(esize) == {SliceKind(esize), Slice2DKind}

\* ------------------------------------------------- derived comparisons
\* Ord of the Metadata type: usize by value, a tuple lexicographically
RECURSIVE meta_cmp(_, _)
meta_cmp(a, b) ==
  IF a = <<>> THEN "Equal"
  ELSE IF Head(a) < Head(b) THEN "Less"
  ELSE IF Head(a) > Head(b) THEN "Greater"
  ELSE meta_cmp(Tail(a), Tail(b))

\* derive(PartialEq): every field equal, in declaration order
derived_eq(p, q) == p.ptr = q.ptr /\ p.meta = q.meta

\* faulty variant: the metadata is compared before the address
derived_partial_cmp_meta_first(p, q) ==
  IF meta_cmp(p.meta, q.meta) # "Equal" THEN meta_cmp(p.meta, q.meta)
  ELSE IF p.ptr < q.ptr THEN "Less"
  ELSE IF p.ptr > q.ptr THEN "Greater"
  ELSE "Equal"

\* derive(PartialOrd): the first field that differs decides
derived_partial_cmp(p, q) ==
  IF p.ptr < q.ptr THEN "Less"
  ELSE IF p.ptr > q.ptr THEN "Greater"
  ELSE meta_cmp(p.meta, q.meta)

derived_lt(p, q) == derived_partial_cmp(p, q) = "Less"

\* ----------------------------------------------------- reads of a view
\* element i (0-based) of the raw slice view: esize cells from
\* addr + i * esize
read_elem(m, view, i) ==
  [k \in 1..view.esize |-> m[view.addr + i * view.esize + k - 1]]

\* ------------------------------------------------------------ actions
Init ==
  /\ mem \in [Live -> Byte]
  /\ mem0 = mem
  /\ pp = Moved
  /\ origin = [by |-> "none"]
  /\ op = "init"
  /\ arg = [t |-> "none"]
  /\ ret = [t |-> "unit"]

\* a by-value `self` of a kind that is not Copy is moved out of the variable
AfterUse(p) == IF IsCopy(p.kind) THEN p ELSE Moved

Bound == pp # Moved

\* the caller's scope is fresh: no pointer value has been constructed in it
Fresh == op = "init"

FromRawParts(a, m, k) ==
  /\ Fresh
  /\ pp' = from_raw_parts(a, m, k)
  /\ origin' = [by |-> "from_raw_parts", ptr |-> a, meta |-> m, kind |-> k]
  /\ op' = "from_raw_parts"
  /\ arg' = [t |-> "parts", ptr |-> a, meta |-> m]
  /\ ret' = [t |-> "pp", val |-> pp']
  /\ UNCHANGED <<mem, mem0>>

GetRawConstPtrFromRef(r, m, k) ==
  /\ Fresh
  /\ pp' = get_raw_const_ptr_from_ref(r, m, k)
  /\ origin' = [by |-> "ref", r |-> r, meta |-> m, kind |-> k]
  /\ op' = "get_raw_const_ptr_from_ref"
  /\ arg' = [t |-> "ref", r |-> r, meta |-> m]
  /\ ret' = [t |-> "pp", val |-> pp']
  /\ UNCHANGED <<mem, mem0>>

GetRawMutPtrFromRef(r, m, k) ==
  /\ Fresh
  /\ pp' = get_raw_mut_ptr_from_ref(r, m, k)
  /\ origin' = [by |-> "ref", r |-> r, meta |-> m, kind |-> k]
  /\ op' = "get_raw_mut_ptr_from_ref"
  /\ arg' = [t |-> "ref", r |-> r, meta |-> m]
  /\ ret' = [t |-> "pp", val |-> pp']
  /\ UNCHANGED <<mem, mem0>>

MetadataOf ==
  /\ Bound
  /\ op' = "metadata_of"
  /\ arg' = [t |-> "self", self |-> pp]
  /\ ret' = [t |-> "meta", val |-> metadata_of(pp)]
  /\ pp' = AfterUse(pp)
  /\ UNCHANGED <<mem, mem0, origin>>

Addr ==
  /\ Bound
  /\ op' = "addr"
  /\ arg' = [t |-> "self", self |-> pp]
  /\ ret' = [t |-> "usize", val |-> addr(pp)]
  /\ pp' = AfterUse(pp)
  /\ UNCHANGED <<mem, mem0, origin>>

AsPtr ==
  /\ Bound
  /\ IsSized(pp.kind)
  /\ op' = "as_ptr"
  /\ arg' = [t |-> "self", self |-> pp]
  /\ ret' = [t |-> "nonnull", val |-> as_ptr(pp)]
  /\ pp' = AfterUse(pp)
  /\ UNCHANGED <<mem, mem0, origin>>

IntoRawParts ==
  /\ Bound
  /\ IsSized(pp.kind)
  /\ op' = "into_raw_parts"
  /\ arg' = [t |-> "self", self |-> pp]
  /\ ret' = [t |-> "pair", val |-> into_raw_parts(pp)]
  /\ pp' = AfterUse(pp)
  /\ UNCHANGED <<mem, mem0, origin>>

\* what a read of n cells at a can do: the read itself where the cells are
\* live, and otherwise (undefined behaviour) a fault or any n cells
ReadOutcomes(m, a, n, read) ==
  IF Readable(a, n)
  THEN {[t |-> "value", val |-> read.val, mem |-> read.mem]}
  ELSE {[t |-> "fault", val |-> <<>>, mem |-> m]}
         \cup {[t |-> "value", val |-> v, mem |-> m] : v \in [1..n -> Byte]}

Deref ==
  /\ Bound
  /\ IsSized(pp.kind)
  /\ \E o \in ReadOutcomes(mem, pp.ptr, SizeOf(pp.kind),
                            IF Readable(pp.ptr, SizeOf(pp.kind))
                            THEN deref(mem, pp) ELSE [val |-> <<>>, mem |-> mem]) :
       /\ ret' = [t |-> o.t, val |-> o.val]
       /\ mem' = o.mem
  /\ op' = "deref"
  /\ arg' = [t |-> "self", self |-> pp]
  /\ pp' = AfterUse(pp)
  /\ UNCHANGED <<mem0, origin>>

\* `let q = p;` of a Copy pointer value
Copy ==
  /\ Bound
  /\ IsCopy(pp.kind)
  /\ op' = "copy"
  /\ arg' = [t |-> "self", self |-> pp]
  /\ ret' = [t |-> "pp", val |-> pp]
  /\ UNCHANGED <<mem, mem0, pp, origin>>

\* faulty variant: a view that runs past the live storage is refused
ToRawSliceChecked ==
  /\ Bound
  /\ pp.kind.tag = "slice"
  /\ Fits(pp.ptr, pp.meta[1], pp.kind.esize)
  /\ op' = "to_raw_slice"
  /\ arg' = [t |-> "self", self |-> pp]
  /\ ret' = [t |-> "rawslice", val |-> to_raw_slice(pp)]
  /\ pp' = AfterUse(pp)
  /\ UNCHANGED <<mem, mem0, origin>>

ToRawSlice ==
  /\ Bound
  /\ pp.kind.tag = "slice"
  /\ op' = "to_raw_slice"
  /\ arg' = [t |-> "self", self |-> pp]
  /\ ret' = [t |-> "rawslice", val |-> to_raw_slice(pp)]
  /\ pp' = AfterUse(pp)
  /\ UNCHANGED <<mem, mem0, origin>>

ToRawStr ==
  /\ Bound
  /\ pp.kind.tag = "str"
  /\ op' = "to_raw_str"
  /\ arg' = [t |-> "self", self |-> pp]
  /\ ret' = [t |-> "rawstr", val |-> to_raw_str(pp)]
  /\ pp' = AfterUse(pp)
  /\ UNCHANGED <<mem, mem0, origin>>

\* p == q and p.partial_cmp(&q), both operands by reference
EqOp(q) ==
  /\ Bound
  /\ IsComparable(pp.kind)
  /\ op' = "eq"
  /\ arg' = [t |-> "two", self |-> pp, other |-> q]
  /\ ret' = [t |-> "bool", val |-> derived_eq(pp, q)]
  /\ UNCHANGED <<mem, mem0, pp, origin>>

PartialCmpOp(q) ==
  /\ Bound
  /\ IsComparable(pp.kind)
  /\ op' = "partial_cmp"
  /\ arg' = [t |-> "two", self |-> pp, other |-> q]
  /\ ret' = [t |-> "ordering", val |-> derived_partial_cmp(pp, q),
             lt |-> derived_lt(pp, q)]
  /\ UNCHANGED <<mem, mem0, pp, origin>>

\* the caller reads element i through the view to_raw_slice returned
ReadElem(i) ==
  /\ op \in {"to_raw_slice", "read_elem"}
  /\ LET view == IF op = "to_raw_slice" THEN ret.val ELSE arg.view IN
       /\ i < view.len
       /\ \E o \in ReadOutcomes(mem, view.addr + i * view.esize, view.esize,
                     IF Readable(view.addr + i * view.esize, view.esize)
                     THEN [val |-> read_elem(mem, view, i), mem |-> mem]
                     ELSE [val |-> <<>>, mem |-> mem]) :
            /\ ret' = [t |-> o.t, val |-> o.val]
            /\ mem' = o.mem
       /\ arg' = [t |-> "view", view |-> view, i |-> i]
  /\ op' = "read_elem"
  /\ UNCHANGED <<mem0, pp, origin>>

\* the scope ends: the pointer value, the views and the values read go out
\* of scope; nothing is freed or written, the pointer owns nothing
EndScope ==
  /\ ~Fresh
  /\ pp' = Moved
  /\ origin' = [by |-> "none"]
  /\ op' = "init"
  /\ arg' = [t |-> "none"]
  /\ ret' = [t |-> "unit"]
  /\ UNCHANGED <<mem, mem0>>

Next ==
  \/ \E k \in Kinds : \E a \in NonNullAddrs : \E m \in Metadata(k) :
       FromRawParts(a, m, k)
  \/ \E r \in Refs : \E k \in GetRawPtrImpls(r.esize) : \E m \in Metadata(k) :
       GetRawConstPtrFromRef(r, m, k)
  \/ \E r \in Refs : \E k \in GetRawPtrImpls(r.esize) : \E m \in Metadata(k) :
       GetRawMutPtrFromRef(r, m, k)
  \/ MetadataOf
  \/ Addr
  \/ AsPtr
  \/ IntoRawParts
  \/ Deref
  \/ Copy
  \/ ToRawSlice
  \/ ToRawStr
  \/ \E q \in PayloadPointers(pp.kind) : EqOp(q)
  \/ \E q \in PayloadPointers(pp.kind) : PartialCmpOp(q)
  \/ \E i \in Usize : ReadElem(i)
  \/ EndScope

Spec == Init /\ [][Next]_vars

\* ------------------------------------------------------------- claims
FromRef == origin.by = "ref"
FromParts == origin.by = "from_raw_parts"
Extracted == op \in {"get_raw_const_ptr_from_ref", "get_raw_mut_ptr_from_ref"}

\* the cells of the value of n cells stored at address a
ValueAt(m, a, n) == [k \in 1..n |-> m[a + k - 1]]

\* element i (0-based) of the array a reference refers to
ArrayElem(m, r, i) == ValueAt(m, r.addr + i * r.esize, r.esize)

\* C1: metadata fidelity. The pointer either extraction entry point returns
\* for a reference r and metadata m reports m from metadata_of, whatever
\* element count r itself carries.
MetadataFidelity ==
  /\ Extracted => metadata_of(ret.val) = arg.meta
  /\ (op = "metadata_of" /\ FromRef) => ret.val = origin.meta

\* the extraction ran with metadata that disagrees with the referent's own
\* element count, and metadata_of then returned it
MetadataFidelityWitness ==
  /\ op = "metadata_of"
  /\ FromRef
  /\ origin.kind.tag = "slice2d"
  /\ origin.r.len = 2
  /\ origin.meta = <<MaxMeta, 1>>
  /\ ret.val = <<MaxMeta, 1>>

\* C2: address fidelity. The pointer either extraction entry point returns
\* for a reference r has the address of r's referent, for every metadata.
AddressFidelity ==
  /\ Extracted => addr(ret.val) = arg.r.addr
  /\ (op = "addr" /\ FromRef) => ret.val = origin.r.addr

AddressFidelityWitness ==
  /\ op = "addr"
  /\ FromRef
  /\ origin.r.len = 2
  /\ origin.meta # <<origin.r.len>>
  /\ ret.val = origin.r.addr
  /\ ret.val = MemCells - 1

\* C3: round trip. into_raw_parts of from_raw_parts(a, m), for a fixed-size
\* pointee kind, returns a pointer with address a and the metadata m.
RoundTripIdentity ==
  (op = "into_raw_parts" /\ FromParts) =>
    /\ ret.val[1].addr = origin.ptr
    /\ ret.val[2] = origin.meta

RoundTripIdentityWitness ==
  /\ op = "into_raw_parts"
  /\ FromParts
  /\ origin.ptr = MaxAddr
  /\ origin.meta = <<1, MaxMeta>>
  /\ ret.val[2] = <<1, MaxMeta>>

\* C4: non-null. Every PayloadPointer value the program holds or returns,
\* however constructed or copied, has a non-zero address.
NonNullInvariant ==
  /\ Bound => addr(pp) # 0
  /\ ret.t = "pp" => addr(ret.val) # 0
  /\ op = "addr" => ret.val # 0

\* a copy of a pointer extracted from a reference to an empty sequence
NonNullInvariantWitness ==
  /\ op = "copy"
  /\ FromRef
  /\ origin.r.len = 0
  /\ addr(ret.val) = origin.r.addr

\* C5: ordering consistency. == holds exactly when address and metadata
\* are both equal, and < is the lexicographic order on (address, metadata).
OrderingConsistency ==
  /\ op = "eq" =>
       (ret.val <=> (/\ addr(arg.self) = addr(arg.other)
                     /\ metadata_of(arg.self) = metadata_of(arg.other)))
  /\ op = "partial_cmp" =>
       (ret.lt <=> (\/ addr(arg.self) < addr(arg.other)
                    \/ /\ addr(arg.self) = addr(arg.other)
                       /\ metadata_of(arg.self)[1] < metadata_of(arg.other)[1]))

\* p < q decided by the address against the metadata
OrderingConsistencyWitness ==
  /\ op = "partial_cmp"
  /\ addr(arg.self) < addr(arg.other)
  /\ metadata_of(arg.self)[1] > metadata_of(arg.other)[1]
  /\ ret.lt

\* C6: sequence view. For a sequence pointer extracted from a reference to
\* an n-element array with metadata n, to_raw_slice returns a non-null view
\* that starts at the stored address, has the stored length n, and whose
\* elements read back as the array's elements in order.
SequenceView ==
  LET matching == FromRef /\ origin.kind.tag = "slice"
                    /\ origin.meta = <<origin.r.len>>
  IN
  /\ (op = "to_raw_slice" /\ matching) =>
       /\ ret.val.addr # 0
       /\ ret.val.addr = addr(arg.self)
       /\ ret.val.len = metadata_of(arg.self)[1]
       /\ ret.val.len = origin.r.len
       /\ \A i \in 0..(ret.val.len - 1) :
            read_elem(mem, ret.val, i) = ArrayElem(mem0, origin.r, i)
  /\ (op = "read_elem" /\ matching) =>
       /\ ret.t = "value"
       /\ ret.val = ArrayElem(mem0, origin.r, arg.i)

\* the second element of a two-element array was read, and differs from the first
SequenceViewWitness ==
  /\ op = "read_elem"
  /\ FromRef
  /\ origin.kind.tag = "slice"
  /\ origin.r.len = 2
  /\ origin.meta = <<2>>
  /\ arg.i = 1
  /\ ret.val = <<1>>
  /\ mem[origin.r.addr] = 0

\* C7: as_ptr returns a non-null pointer whose address is addr(p), and the
\* metadata has no influence on it.
AsPtrAddress ==
  op = "as_ptr" =>
    /\ ret.val.addr # 0
    /\ ret.val.addr = addr(arg.self)
    /\ \A m \in Metadata(arg.self.kind) :
         as_ptr(PayloadPointer(arg.self.ptr, m, arg.self.kind)) = ret.val

AsPtrAddressWitness ==
  /\ op = "as_ptr"
  /\ arg.self.kind.tag = "slice2d"
  /\ arg.self.meta = <<MaxMeta, 1>>
  /\ ret.val.addr = MaxAddr

\* C8: deref is non-destructive. Where the address holds a value v of the
\* pointee kind, deref returns v and leaves memory and the pointer value as
\* they were, so every repetition returns v again.
DerefNonDestructive ==
  (op = "deref" /\ Readable(arg.self.ptr, SizeOf(arg.self.kind))) =>
    /\ ret.t = "value"
    /\ ret.val = ValueAt(mem0, arg.self.ptr, SizeOf(arg.self.kind))
    /\ mem = mem0
    /\ pp = arg.self

\* a value of more than one cell with a non-zero cell was read
DerefNonDestructiveWitness ==
  /\ op = "deref"
  /\ SizeOf(arg.self.kind) = 2
  /\ Readable(arg.self.ptr, 2)
  /\ ret.t = "value"
  /\ ret.val = <<0, 1>>

\* C9: text view. to_raw_str of from_raw_parts(a, n) starts at a and has
\* byte length n, for every n and every content of memory, which it leaves
\* as it was.
TextView ==
  (op = "to_raw_str" /\ FromParts) =>
    /\ ret.val.addr = origin.ptr
    /\ ret.val.len = origin.meta[1]
    /\ mem = mem0

\* a text view longer than the live storage, at an address that is not live
TextViewWitness ==
  /\ op = "to_raw_str"
  /\ FromParts
  /\ origin.ptr = MaxAddr
  /\ origin.ptr \notin Live
  /\ ret.val.len = MaxMeta

SafeOps == {"metadata_of", "addr", "as_ptr", "from_raw_parts", "into_raw_parts",
            "to_raw_slice", "to_raw_str", "get_raw_const_ptr_from_ref",
            "get_raw_mut_ptr_from_ref"}

\* C10: totality. Every safe operation can run on every input of its type
\* and returns a value, leaving memory and (for a Copy kind) its argument
\* pointer value as they were.
Totality ==
  /\ Fresh =>
       /\ \A k \in Kinds : \A a \in NonNullAddrs : \A m \in Metadata(k) :
            ENABLED FromRawParts(a, m, k)
       /\ \A r \in Refs : \A k \in GetRawPtrImpls(r.esize) : \A m \in Metadata(k) :
            /\ ENABLED GetRawConstPtrFromRef(r, m, k)
            /\ ENABLED GetRawMutPtrFromRef(r, m, k)
  /\ Bound =>
       /\ ENABLED MetadataOf
       /\ ENABLED Addr
       /\ IsSized(pp.kind) => (ENABLED AsPtr /\ ENABLED IntoRawParts)
       /\ pp.kind.tag = "slice" => ENABLED ToRawSlice
       /\ pp.kind.tag = "str" => ENABLED ToRawStr
  /\ op \in SafeOps =>
       /\ ret.t \in {"pp", "meta", "usize", "nonnull", "pair", "rawslice", "rawstr"}
       /\ mem = mem0
       /\ (arg.t = "self" /\ IsCopy(arg.self.kind)) => pp = arg.self

\* a sequence view over an address that is not live, longer than the storage
TotalityWitness ==
  /\ op = "to_raw_slice"
  /\ FromParts
  /\ arg.self.ptr \notin Live
  /\ ret.val.len = MaxMeta
  /\ ret.val.esize = 2

====
